---- MODULE Spec2Model ----
(***************************************************************************)
(* Trace-context propagation and signal correlation of the APM demo mesh:  *)
(* api-gateway, order-service, user-service, notification-service, plus    *)
(* the slog/filebeat demo application.                                     *)
(*                                                                         *)
(* One client request is followed at a time.  A request is a stack of      *)
(* handler invocations ("frames"): the frame at the bottom is the service  *)
(* the client called, every synchronous downstream HTTP call pushes the    *)
(* frame of the called service.  Spans, log records and metric samples     *)
(* produced for the request are collected until the collectors have taken  *)
(* them (Collect), after which the next client request may arrive.         *)
(***************************************************************************)
EXTENDS Integers, Sequences, FiniteSets, TLC

VARIABLES
    stack,        \* frames of the request being handled, bottom first
    spans,        \* spans started for the request, in start order
    logs,         \* log records written for the request, in write order
    metrics,      \* metric samples recorded for the request, in order
    idgen,        \* number of ids drawn from the SDK id generator
    fidgen,       \* number of handler invocations started
    served,       \* client requests completed so far
    orders,       \* order-service: var orders
    nextOrderID,  \* order-service: var nextOrderID
    users,        \* user-service: keys of var users
    nextNotificationID, \* notification-service: var nextNotificationID
    prop,         \* state of the propagator round-trip check
    workers       \* handler goroutines running side by side in a service

vars == <<stack, spans, logs, metrics, idgen, fidgen, served, orders,
          nextOrderID, users, nextNotificationID, prop, workers>>

(***************************************************************************)
(* Bounds of the model.                                                    *)
(***************************************************************************)
MaxRequests == 2

(***************************************************************************)
(* Names.                                                                  *)
(***************************************************************************)
GW    == "api-gateway"
ORDER == "order-service"
USER  == "user-service"
NOTIF == "notification-service"
HELLO == "my-go-filebeat-app"

ApmServices == {GW, ORDER, USER, NOTIF}

\* Routes registered by each service's main().
Routes ==
    {<<GW, "GET", "/health">>, <<GW, "GET", "/metrics">>,
     <<GW, "GET", "/api/v1/users/:id">>, <<GW, "POST", "/api/v1/orders">>,
     <<GW, "GET", "/api/v1/orders">>,
     <<ORDER, "GET", "/health">>, <<ORDER, "GET", "/metrics">>,
     <<ORDER, "GET", "/orders">>, <<ORDER, "POST", "/orders">>,
     <<ORDER, "GET", "/orders/:id">>,
     <<USER, "GET", "/health">>, <<USER, "GET", "/metrics">>,
     <<USER, "GET", "/users/:id">>, <<USER, "GET", "/users">>,
     <<USER, "POST", "/users">>,
     <<NOTIF, "GET", "/health">>, <<NOTIF, "GET", "/metrics">>,
     <<NOTIF, "GET", "/notify">>, <<NOTIF, "POST", "/email">>,
     <<NOTIF, "POST", "/sms">>,
     <<HELLO, "GET", "/hello">>}

\* Path parameters and body user ids a client sends: an existing id, an id
\* nobody has, and a text that is no number.
Args == {<<"1">>, <<"9">>, <<"x">>}

(***************************************************************************)
(* strconv.Atoi / fmt %d on the decimal texts above.                       *)
(***************************************************************************)
Digits == <<"0", "1", "2", "3", "4", "5", "6", "7", "8", "9">>

DigitVal(c) ==
    IF \E d \in 1..10 : Digits[d] = c
    THEN (CHOOSE d \in 1..10 : Digits[d] = c) - 1
    ELSE -1

RECURSIVE AtoiVal(_)
AtoiVal(s) ==
    IF s = <<>> THEN 0
    ELSE 10 * AtoiVal(SubSeq(s, 1, Len(s) - 1)) + DigitVal(s[Len(s)])

\* strconv.Atoi: [ok, n]
Atoi(s) ==
    IF s # <<>> /\ \A i \in 1..Len(s) : DigitVal(s[i]) >= 0
    THEN [ok |-> TRUE, n |-> AtoiVal(s)]
    ELSE [ok |-> FALSE, n |-> 0]

RECURSIVE Itoa(_)
Itoa(n) ==
    IF n < 10 THEN <<Digits[n + 1]>>
    ELSE Itoa(n \div 10) \o <<Digits[(n % 10) + 1]>>

(***************************************************************************)
(* The propagation carrier: the traceparent header written by the          *)
(* TraceContext propagator every service installs.  Ids are numbers below  *)
(* 16^7 standing for the 128-bit and 64-bit ids; they are written as       *)
(* fixed-width lower-case hex.                                             *)
(***************************************************************************)
TraceIDHexLen == 32
SpanIDHexLen  == 16

HexChars == <<"0", "1", "2", "3", "4", "5", "6", "7",
              "8", "9", "a", "b", "c", "d", "e", "f">>

Nibble(n, k) == IF k >= 7 THEN 0 ELSE (n \div (16 ^ k)) % 16

HexEncode(n, w) == [i \in 1..w |-> HexChars[Nibble(n, w - i) + 1]]

HexVal(c) ==
    IF \E d \in 1..16 : HexChars[d] = c
    THEN (CHOOSE d \in 1..16 : HexChars[d] = c) - 1
    ELSE -1

IsHex(s) == \A i \in 1..Len(s) : HexVal(s[i]) >= 0

\* The number the first n hex digits of s stand for.
RECURSIVE HexDecodeUpTo(_, _)
HexDecodeUpTo(s, n) ==
    IF n = 0 THEN 0
    ELSE 16 * HexDecodeUpTo(s, n - 1) + HexVal(s[n])

HexDecode(s) == HexDecodeUpTo(s, Len(s))

\* trace.SpanContext; the zero value is the invalid context.
NoSpanContext == [valid |-> FALSE, trace |-> 0, span |-> 0, sampled |-> FALSE]

SpanContext(t, s, sampled) ==
    [valid |-> t # 0 /\ s # 0, trace |-> t, span |-> s, sampled |-> sampled]

\* TraceID.String()
TraceIDString(t) == HexEncode(t, TraceIDHexLen)

\* The header value "00-<trace id>-<span id>-<flags>".
TraceParent(sc) ==
    <<"0", "0", "-">> \o HexEncode(sc.trace, TraceIDHexLen) \o <<"-">>
        \o HexEncode(sc.span, SpanIDHexLen) \o <<"-">>
        \o HexEncode(IF sc.sampled THEN 1 ELSE 0, 2)

\* Parsing of the header value; anything that is not exactly the format
\* above, or names an all-zero id, gives the invalid context.
ParseTraceParent(h) ==
    LET tEnd == 3 + TraceIDHexLen
        sEnd == tEnd + 1 + SpanIDHexLen
    IN  IF /\ Len(h) = sEnd + 3
           /\ h[1] = "0" /\ h[2] = "0"
           /\ h[3] = "-" /\ h[tEnd + 1] = "-" /\ h[sEnd + 1] = "-"
           /\ IsHex(SubSeq(h, 4, tEnd))
           /\ IsHex(SubSeq(h, tEnd + 2, sEnd))
           /\ IsHex(SubSeq(h, sEnd + 2, sEnd + 3))
           /\ HexDecode(SubSeq(h, 4, tEnd)) # 0
           /\ HexDecode(SubSeq(h, tEnd + 2, sEnd)) # 0
        THEN [valid   |-> TRUE,
              trace   |-> HexDecode(SubSeq(h, 4, tEnd)),
              span    |-> HexDecode(SubSeq(h, tEnd + 2, sEnd)),
              sampled |-> HexDecode(SubSeq(h, sEnd + 2, sEnd + 3)) % 2 = 1]
        ELSE NoSpanContext

\* The propagator a service's initTracer installs with
\* otel.SetTextMapPropagator; without that call the global propagator
\* writes and reads nothing.
PropagatorUnsetInOrderService(svc) ==
    IF svc = ORDER THEN "noop" ELSE "tracecontext"

Propagator(svc) == "tracecontext"

\* otel.GetTextMapPropagator().Inject: the header value written, <<>> for
\* none.  An invalid context is not written.
Inject(svc, sc) ==
    IF Propagator(svc) = "tracecontext" /\ sc.valid
    THEN TraceParent(sc)
    ELSE <<>>

\* otel.GetTextMapPropagator().Extract, as otelgin calls it on the inbound
\* headers.
Extract(svc, h) ==
    IF Propagator(svc) = "tracecontext"
    THEN ParseTraceParent(h)
    ELSE NoSpanContext

(***************************************************************************)
(* What a client may put in the traceparent header.                        *)
(***************************************************************************)
ClientTraceIds == {171}
ClientSpanIds  == {205}

ValidHeaders ==
    {TraceParent(SpanContext(t, s, TRUE)) : t \in ClientTraceIds, s \in ClientSpanIds}

MalformedHeaders ==
    {<<"g", "a", "r", "b", "a", "g", "e">>,
     TraceParent(SpanContext(0, 205, TRUE))}

NoHeader == <<>>

ClientHeaders == {NoHeader} \cup MalformedHeaders \cup ValidHeaders

(***************************************************************************)
(* Spans.  The SDK tracer of every service samples always; ids come from   *)
(* the SDK's random generator, modelled as never repeating.                *)
(***************************************************************************)
\* tracer.Start(ctx, name): a child of the span context in ctx, or a new
\* trace if ctx has none.  n is the number of ids drawn so far.
NewSpan(parent, name, svc, owner, n) ==
    [id     |-> n + 1,
     trace  |-> IF parent.valid THEN parent.trace ELSE n + 2,
     parent |-> IF parent.valid THEN parent.span ELSE 0,
     name   |-> name,
     svc    |-> svc,
     owner  |-> owner,
     ended  |-> FALSE,
     attrs  |-> {},
     errors |-> 0,
     status |-> "Unset",
     late   |-> FALSE]

IdsDrawn(parent) == IF parent.valid THEN 1 ELSE 2

HasSpan(ss, id) == \E i \in 1..Len(ss) : ss[i].id = id

SpanById(ss, id) == ss[CHOOSE i \in 1..Len(ss) : ss[i].id = id]

\* The span context of the span with this id; 0 is a context with no span.
SpanCtx(ss, id) ==
    IF HasSpan(ss, id)
    THEN SpanContext(SpanById(ss, id).trace, id, TRUE)
    ELSE NoSpanContext

\* span.SetAttributes: recorded while the span is open; on an ended span the
\* SDK drops the call (late notes that it happened).
SetAttributes(ss, id, keys) ==
    [i \in 1..Len(ss) |->
        IF ss[i].id # id THEN ss[i]
        ELSE IF ss[i].ended THEN [ss[i] EXCEPT !.late = TRUE]
        ELSE [ss[i] EXCEPT !.attrs = @ \cup keys]]

\* span.RecordError: adds an exception event; the status is not changed.
RecordError(ss, id) ==
    [i \in 1..Len(ss) |->
        IF ss[i].id # id THEN ss[i]
        ELSE IF ss[i].ended THEN [ss[i] EXCEPT !.late = TRUE]
        ELSE [ss[i] EXCEPT !.errors = @ + 1]]

\* span.SetStatus
SetStatus(ss, id, st) ==
    [i \in 1..Len(ss) |->
        IF ss[i].id # id THEN ss[i]
        ELSE IF ss[i].ended THEN [ss[i] EXCEPT !.late = TRUE]
        ELSE [ss[i] EXCEPT !.status = st]]

\* span.End
EndSpan(ss, id) ==
    [i \in 1..Len(ss) |->
        IF ss[i].id # id THEN ss[i]
        ELSE IF ss[i].ended THEN [ss[i] EXCEPT !.late = TRUE]
        ELSE [ss[i] EXCEPT !.ended = TRUE]]

(***************************************************************************)
(* Frames: one handler invocation each.                                    *)
(***************************************************************************)
Body(tag) == [tag |-> tag, order |-> "", notification |-> "", user |-> ""]

NoBody == Body("")

NoResult == [status |-> 0, body |-> NoBody]

NewFrame(fid, svc, method, route, hdr, arg, bodyOK) ==
    [fid      |-> fid,
     svc      |-> svc,
     method   |-> method,
     route    |-> route,
     hdr      |-> hdr,          \* inbound traceparent header, <<>> if none
     arg      |-> arg,          \* path parameter / user id of the body
     bodyOK   |-> bodyOK,       \* the request body binds
     pc       |-> IF svc = HELLO THEN "hello" ELSE "otelgin",
     ret      |-> "",           \* where the handler goes on after a helper
     ctx      |-> 0,            \* span in c.Request.Context(), 0 if none
     status   |-> 0,            \* c.Writer.Status(), 0 before it is written
     body     |-> NoBody,       \* response body
     callee   |-> "",           \* callService / callUserService: the peer
     cmethod  |-> "",
     croute   |-> "",
     carg     |-> <<>>,
     cspan    |-> 0,            \* span of the running helper
     outHdr   |-> <<>>,         \* header injected into the outbound request
     doErr    |-> "none",       \* error of client.Do
     resp     |-> NoResult,     \* response of client.Do
     err      |-> "none",       \* helper's returned error
     res      |-> NoBody,       \* helper's returned value
     order    |-> NoBody,
     op       |-> "",
     ntype    |-> "",
     n        |-> 0,
     failed   |-> FALSE,
     traceID  |-> <<>>,         \* /hello: traceID, requestID locals
     reqID    |-> <<>>,
     chain    |-> <<>>,         \* hops made so far with their outcome
     before   |-> [orders |-> orders, nextOrderID |-> nextOrderID]]
                                \* order-service state when the request arrived

Top == stack[Len(stack)]

SetTop(f) == [stack EXCEPT ![Len(stack)] = f]

Running(p) == stack # <<>> /\ Top.pc = p

Respond(f, status, body) == [f EXCEPT !.status = status, !.body = body, !.pc = "logmw"]

Sample(name, l1, l2, l3) == [name |-> name, l1 |-> l1, l2 |-> l2, l3 |-> l3]

StatusText(code) == Itoa(code)

(***************************************************************************)
(* Initial state: the package-level variables of the services.             *)
(***************************************************************************)
InitialNextOrderID == 3

PropOff == [phase |-> "off", from |-> "", to |-> "", sc |-> NoSpanContext,
            carrier |-> <<>>, out |-> NoSpanContext]

InitDomain ==
    /\ orders = <<[id |-> 1, user |-> 1], [id |-> 2, user |-> 2]>>
    /\ nextOrderID = InitialNextOrderID
    /\ users = {1, 2, 3}
    /\ nextNotificationID = 1

InitIdle ==
    /\ stack = <<>>
    /\ spans = <<>>
    /\ logs = <<>>
    /\ metrics = <<>>
    /\ idgen = 0
    /\ fidgen = 0
    /\ served = 0

\* Goroutines of the side-by-side view of the handlers (SpecConcurrent).
MaxWorkers == 2

Workers == 1..MaxWorkers

IdleWorker == [h |-> "", pc |-> "idle", id |-> 0, tmp |-> 0, held |-> <<>>]

WorkersIdle == [w \in Workers |-> IdleWorker]

Init == InitIdle /\ InitDomain /\ prop = PropOff /\ workers = WorkersIdle

domainVars == <<orders, nextOrderID, users, nextNotificationID>>

auxVars == <<prop, workers>>

(***************************************************************************)
(* A client sends a request to one of the services.                        *)
(***************************************************************************)
UsesArg(route) ==
    route \in {"/api/v1/users/:id", "/orders/:id", "/users/:id"}

Binds(svc, method, route) ==
    method = "POST" /\ route \in {"/api/v1/orders", "/orders", "/users"}

ClientSend(svc, method, route, hdr, arg, bodyOK) ==
    /\ stack = <<>>
    /\ served < MaxRequests
    /\ stack' = <<NewFrame(fidgen + 1, svc, method, route, hdr, arg, bodyOK)>>
    /\ fidgen' = fidgen + 1
    /\ UNCHANGED <<spans, logs, metrics, idgen, served, domainVars, auxVars>>

ClientRequest ==
    \E r \in Routes, hdr \in ClientHeaders, arg \in Args \cup {<<>>}, bodyOK \in BOOLEAN :
        /\ r[1] # HELLO =>
              (arg = <<>> <=> ~(UsesArg(r[3]) \/ (r[1] = ORDER /\ Binds(r[1], r[2], r[3]) /\ bodyOK)))
        /\ r[1] = HELLO => arg \in {<<>>, <<"1">>}
        /\ ~bodyOK => Binds(r[1], r[2], r[3])
        /\ (r[1] = ORDER /\ Binds(r[1], r[2], r[3]) /\ bodyOK) => Atoi(arg).ok
        /\ ClientSend(r[1], r[2], r[3], hdr, arg, bodyOK)

\* A request that matches no registered route, with a standard method or
\* with a method token of the client's own: net/http accepts any token, and
\* gin runs the r.Use middleware around its 404 answer.  c.FullPath() of
\* such a request is "".
UnmatchedMethods == {"GET", "BREW"}

ClientRequestUnmatched ==
    \E svc \in ApmServices, m \in UnmatchedMethods, hdr \in ClientHeaders :
        ClientSend(svc, m, "", hdr, <<>>, TRUE)

(***************************************************************************)
(* The middleware chain of every APM service:                              *)
(*   gin.Recovery, otelgin.Middleware, prometheusMiddleware,               *)
(*   loggingMiddleware, handler.                                           *)
(***************************************************************************)
\* otelgin.Middleware before c.Next(): extract the inbound context, start the
\* server span and put it into c.Request's context.
OtelginStart ==
    /\ Running("otelgin")
    /\ LET f      == Top
           parent == Extract(f.svc, f.hdr)
           sp     == NewSpan(parent, <<"server", f.route>>, f.svc, f.fid, idgen)
       IN  /\ spans' = Append(spans, sp)
           /\ idgen' = idgen + IdsDrawn(parent)
           /\ stack' = SetTop([f EXCEPT !.ctx = sp.id, !.pc = "handler"])
    /\ UNCHANGED <<logs, metrics, fidgen, served, domainVars, auxVars>>

\* loggingMiddleware after c.Next(): the access-log line of gin's logger
\* with the formatter of the service.  The api-gateway's line has no
\* "service" key; no line has a request id.
\* The span in param.Request.Context() when the Formatter runs.  The
\* logging middleware is installed after otelgin, so it runs inside it and
\* sees the context otelgin has put into the request; installed before, it
\* would see the request as it came in.
loggingContextOutsideOtelgin(f) == 0

loggingContext(f) == f.ctx

AccessLog(f, ss) ==
    [svc        |-> f.svc,
     kind       |-> "access",
     service    |-> IF f.svc = GW THEN <<>> ELSE <<f.svc>>,
     request_id |-> <<>>,
     trace_id   |-> <<TraceIDString(SpanCtx(ss, loggingContext(f)).trace)>>,
     method     |-> f.method,
     uri        |-> f.route,
     status     |-> f.status,
     fid        |-> f.fid]

LoggingMiddleware ==
    /\ Running("logmw")
    /\ Top.svc \in ApmServices
    /\ logs' = Append(logs, AccessLog(Top, spans))
    /\ stack' = SetTop([Top EXCEPT !.pc = "prommw"])
    /\ UNCHANGED <<spans, metrics, idgen, fidgen, served, domainVars, auxVars>>

\* prometheusMiddleware after c.Next(): the two samples are recorded whatever
\* status the handler has written.
PrometheusMiddlewareOnSuccessOnly ==
    /\ Running("prommw")
    /\ LET f == Top
       IN  /\ metrics' = IF f.status >= 400 THEN metrics ELSE metrics \o
                  <<Sample("http_requests_total", f.method, f.route, StatusText(f.status)),
                    Sample("http_request_duration_seconds", f.method, f.route, "")>>
           /\ stack' = SetTop([f EXCEPT !.pc = "otelgin_end"])
    /\ UNCHANGED <<spans, logs, idgen, fidgen, served, domainVars, auxVars>>

PrometheusMiddleware ==
    /\ Running("prommw")
    /\ LET f == Top
       IN  /\ metrics' = metrics \o
                  <<Sample("http_requests_total", f.method, f.route, StatusText(f.status)),
                    Sample("http_request_duration_seconds", f.method, f.route, "")>>
           /\ stack' = SetTop([f EXCEPT !.pc = "otelgin_end"])
    /\ UNCHANGED <<spans, logs, idgen, fidgen, served, domainVars, auxVars>>

\* The span status otelgin derives from the response status of a server
\* span: only 5xx (and codes that are no HTTP status) are errors.
HTTPServerStatus(code) ==
    IF code < 100 \/ code >= 500 THEN "Error" ELSE "Unset"

\* otelgin.Middleware after c.Next(): status, then the deferred span.End().
OtelginEnd ==
    /\ Running("otelgin_end")
    /\ LET f  == Top
           s1 == SetStatus(spans, f.ctx, HTTPServerStatus(f.status))
           s2 == SetAttributes(s1, f.ctx, {"http.status_code"})
       IN  /\ spans' = EndSpan(s2, f.ctx)
           /\ stack' = SetTop([f EXCEPT !.pc = "done"])
    /\ UNCHANGED <<logs, metrics, idgen, fidgen, served, domainVars, auxVars>>

\* GET /health and GET /metrics of every service
Health ==
    /\ Running("handler")
    /\ Top.route \in {"/health", "/metrics"}
    /\ stack' = SetTop(Respond(Top, 200, Body(IF Top.route = "/health" THEN "health" ELSE "exposition")))
    /\ UNCHANGED <<spans, logs, metrics, idgen, fidgen, served, domainVars, auxVars>>

\* No route matches: gin answers 404 with a plain-text body.
NoRoute ==
    /\ Running("handler")
    /\ Top.route = ""
    /\ stack' = SetTop(Respond(Top, 404, Body("text")))
    /\ UNCHANGED <<spans, logs, metrics, idgen, fidgen, served, domainVars, auxVars>>

\* The response reaches the caller's client.Do.
ServerReturn ==
    /\ Len(stack) > 1
    /\ Top.pc = "done"
    /\ LET callee == Top
           caller == stack[Len(stack) - 1]
       IN  stack' = [SubSeq(stack, 1, Len(stack) - 1) EXCEPT ![Len(stack) - 1] =
                        [caller EXCEPT !.resp = [status |-> callee.status, body |-> callee.body],
                                       !.pc = "call_resp"]]
    /\ UNCHANGED <<spans, logs, metrics, idgen, fidgen, served, domainVars, auxVars>>

\* client := &http.Client{Timeout: 10 * time.Second}; a zero Timeout means
\* that the client never gives up.
ClientTimeoutSeconds == 10

clientTimeoutUnset(svc) == 0

clientTimeout(svc) == ClientTimeoutSeconds

\* The response comes after the caller's http.Client timeout has fired.
ResponseTimeout ==
    /\ Len(stack) > 1
    /\ Top.pc = "done"
    /\ clientTimeout(stack[Len(stack) - 1].svc) > 0
    /\ LET caller == stack[Len(stack) - 1]
       IN  stack' = [SubSeq(stack, 1, Len(stack) - 1) EXCEPT ![Len(stack) - 1] =
                        [caller EXCEPT !.doErr = "timeout", !.pc = "call_resp"]]
    /\ UNCHANGED <<spans, logs, metrics, idgen, fidgen, served, domainVars, auxVars>>

\* The client has its response and the collectors have taken the spans, log
\* lines and samples of the request.
Collect ==
    /\ Len(stack) = 1
    /\ Top.pc = "done"
    /\ stack' = <<>>
    /\ spans' = <<>>
    /\ logs' = <<>>
    /\ metrics' = <<>>
    /\ idgen' = 0
    /\ fidgen' = 0
    /\ served' = served + 1
    /\ UNCHANGED <<domainVars, auxVars>>

(***************************************************************************)
(* api-gateway: callService.                                               *)
(***************************************************************************)
Hop(f, err, status, span) ==
    [svc |-> f.callee, err |-> err, status |-> status, span |-> span]

\* A helper returns (res, err) to the handler.
HelperReturn(f, err, res, status) ==
    [f EXCEPT !.err = err, !.res = res, !.pc = f.ret,
              !.chain = Append(@, Hop(f, err, status, f.cspan)),
              !.doErr = "none", !.resp = NoResult, !.outHdr = <<>>]

StartCall(f, callee, method, route, arg, ret) ==
    [f EXCEPT !.callee = callee, !.cmethod = method, !.croute = route,
              !.carg = arg, !.ret = ret, !.pc = "call_start"]

\* ctx, span := tracer.Start(ctx, ...): the context the outbound request is
\* built with and injected from is the one holding the new span.
callServiceCtxOuter(f, sp) == f.ctx

callServiceCtx(f, sp) == sp.id

\* defer span.End()
callServiceEndOnSuccessOnly(ss, id, err) ==
    IF err = "none" THEN EndSpan(ss, id) ELSE ss

\* span.End() called ahead of the last recording on the span, in place of
\* the deferred call.
callServiceEndBeforeRecording(ss, id, err) ==
    IF err = "none"
    THEN SetAttributes(EndSpan(ss, id), id, {"http.status_code"})
    ELSE RecordError(EndSpan(ss, id), id)

callServiceDeferEnd(ss, id, err) == EndSpan(ss, id)

\* callService up to client.Do
CallServiceStart ==
    /\ Running("call_start")
    /\ Top.svc = GW
    /\ \E urlOK \in BOOLEAN :
        LET f  == Top
            sp == NewSpan(SpanCtx(spans, f.ctx), <<"call", f.callee>>, GW, f.fid, idgen)
            s1 == SetAttributes(Append(spans, sp), sp.id,
                                {"service.name", "http.url", "http.method"})
            g  == [f EXCEPT !.cspan = sp.id]
        IN  /\ idgen' = idgen + 1
            /\ IF urlOK
               THEN /\ spans' = s1
                    /\ metrics' = metrics
                    /\ stack' = SetTop([g EXCEPT
                           !.outHdr = Inject(GW, SpanCtx(s1, callServiceCtx(f, sp))),
                           !.pc = "call_do"])
               ELSE /\ spans' = callServiceDeferEnd(RecordError(s1, sp.id), sp.id, "reqerr")
                    /\ metrics' = Append(metrics,
                           Sample("service_calls_total", f.callee, "error", ""))
                    /\ stack' = SetTop(HelperReturn(g, "reqerr", NoBody, 0))
    /\ UNCHANGED <<logs, fidgen, served, domainVars, auxVars>>

\* client.Do fails: no connection.
ClientDoFail ==
    /\ Running("call_do")
    /\ stack' = SetTop([Top EXCEPT !.doErr = "connerr", !.pc = "call_resp"])
    /\ UNCHANGED <<spans, logs, metrics, idgen, fidgen, served, domainVars, auxVars>>

\* client.Do has sent the request and the peer stays silent.
ClientDoStall ==
    /\ Running("call_do")
    /\ stack' = SetTop([Top EXCEPT !.pc = "call_silent"])
    /\ UNCHANGED <<spans, logs, metrics, idgen, fidgen, served, domainVars, auxVars>>

\* The timeout of the http.Client fires while it waits for the peer.
ClientTimeoutFires ==
    /\ Running("call_silent")
    /\ clientTimeout(Top.svc) > 0
    /\ stack' = SetTop([Top EXCEPT !.doErr = "timeout", !.pc = "call_resp"])
    /\ UNCHANGED <<spans, logs, metrics, idgen, fidgen, served, domainVars, auxVars>>

\* client.Do reaches the peer: its handler chain runs.
ClientDoSend ==
    /\ Running("call_do")
    /\ LET f == Top
       IN  stack' = Append(SetTop([f EXCEPT !.pc = "call_wait"]),
                      NewFrame(fidgen + 1, f.callee, f.cmethod, f.croute,
                               f.outHdr, f.carg, TRUE))
    /\ fidgen' = fidgen + 1
    /\ UNCHANGED <<spans, logs, metrics, idgen, served, domainVars, auxVars>>

\* What io.ReadAll and json.Unmarshal make of a response body: the body is
\* read whole, or the read fails (the timeout covers the body), or what
\* arrives is not JSON.
BodyReads == {"ok", "readerr", "notjson"}

IsJSON(body) == body.tag \notin {"", "exposition", "text"}

\* The status count of callService comes right after client.Do has
\* returned a response, ahead of the body read and the decoding, so it is
\* made whatever these two come to.
serviceCallsCountedAfterDecode(ms, cnt, err) ==
    IF err = "none" THEN Append(ms, cnt) ELSE ms

serviceCallsCounted(ms, cnt, err) == Append(ms, cnt)

\* callService from the return of client.Do
CallServiceFinish ==
    /\ Running("call_resp")
    /\ Top.svc = GW
    /\ \E rd \in BodyReads :
        LET f   == Top
            id  == f.cspan
            ok2 == f.resp.status >= 200 /\ f.resp.status < 300
            cnt == Sample("service_calls_total", f.callee,
                          IF ok2 THEN "success" ELSE "error", "")
        IN  IF f.doErr # "none"
            THEN /\ rd = "ok"
                 /\ spans' = callServiceDeferEnd(RecordError(spans, id), id, f.doErr)
                 /\ metrics' = Append(metrics,
                        Sample("service_calls_total", f.callee, "error", ""))
                 /\ stack' = SetTop(HelperReturn(f, f.doErr, NoBody, 0))
            ELSE IF rd = "readerr"
            THEN /\ spans' = callServiceDeferEnd(RecordError(spans, id), id, "readerr")
                 /\ metrics' = serviceCallsCounted(metrics, cnt, "readerr")
                 /\ stack' = SetTop(HelperReturn(f, "readerr", NoBody, f.resp.status))
            ELSE IF rd = "notjson" \/ ~IsJSON(f.resp.body)
            THEN /\ spans' = callServiceDeferEnd(RecordError(spans, id), id, "decode")
                 /\ metrics' = serviceCallsCounted(metrics, cnt, "decode")
                 /\ stack' = SetTop(HelperReturn(f, "decode", NoBody, f.resp.status))
            ELSE /\ spans' = callServiceDeferEnd(
                                 SetAttributes(spans, id, {"http.status_code"}), id, "none")
                 /\ metrics' = serviceCallsCounted(metrics, cnt, "none")
                 /\ stack' = SetTop(HelperReturn(f, "none", f.resp.body, f.resp.status))
    /\ UNCHANGED <<logs, idgen, fidgen, served, domainVars, auxVars>>

(***************************************************************************)
(* api-gateway: handlers.                                                  *)
(***************************************************************************)
ErrorBody == Body("error")

\* GET /api/v1/users/:id
GwGetUser ==
    /\ Running("handler")
    /\ Top.svc = GW /\ Top.route = "/api/v1/users/:id"
    /\ stack' = SetTop(StartCall(Top, USER, "GET", "/users/:id", Top.arg, "gw_user_done"))
    /\ UNCHANGED <<spans, logs, metrics, idgen, fidgen, served, domainVars, auxVars>>

\* if err != nil { c.JSON(500, ...); return }
hopErrorIgnored(err) == FALSE

hopErrorReturnsUnlessTimeout(err) == err \notin {"none", "timeout"}

hopErrorReturns(err) == err # "none"

GwGetUserDone ==
    /\ Running("gw_user_done")
    /\ stack' = SetTop(IF hopErrorReturns(Top.err)
                       THEN Respond(Top, 500, ErrorBody)
                       ELSE Respond(Top, 200, Top.res))
    /\ UNCHANGED <<spans, logs, metrics, idgen, fidgen, served, domainVars, auxVars>>

\* GET /api/v1/orders
GwListOrders ==
    /\ Running("handler")
    /\ Top.svc = GW /\ Top.route = "/api/v1/orders" /\ Top.method = "GET"
    /\ stack' = SetTop(StartCall(Top, ORDER, "GET", "/orders", <<>>, "gw_list_done"))
    /\ UNCHANGED <<spans, logs, metrics, idgen, fidgen, served, domainVars, auxVars>>

GwListOrdersDone ==
    /\ Running("gw_list_done")
    /\ stack' = SetTop(IF hopErrorReturns(Top.err)
                       THEN Respond(Top, 500, ErrorBody)
                       ELSE Respond(Top, 200, Top.res))
    /\ UNCHANGED <<spans, logs, metrics, idgen, fidgen, served, domainVars, auxVars>>

\* POST /api/v1/orders: bind, then the order-service hop
GwCreateOrderNotifyFirst ==
    /\ Running("handler")
    /\ Top.svc = GW /\ Top.route = "/api/v1/orders" /\ Top.method = "POST"
    /\ stack' = SetTop(IF ~Top.bodyOK
                       THEN Respond(Top, 400, ErrorBody)
                       ELSE StartCall(Top, NOTIF, "GET", "/notify", <<>>, "gw_order_hop1"))
    /\ UNCHANGED <<spans, logs, metrics, idgen, fidgen, served, domainVars, auxVars>>

GwCreateOrder ==
    /\ Running("handler")
    /\ Top.svc = GW /\ Top.route = "/api/v1/orders" /\ Top.method = "POST"
    /\ stack' = SetTop(IF ~Top.bodyOK
                       THEN Respond(Top, 400, ErrorBody)
                       ELSE StartCall(Top, ORDER, "GET", "/orders", <<>>, "gw_order_hop1"))
    /\ UNCHANGED <<spans, logs, metrics, idgen, fidgen, served, domainVars, auxVars>>

\* POST /api/v1/orders after the order-service hop: give up, or go on to
\* the notification-service hop
GwCreateOrderNotify ==
    /\ Running("gw_order_hop1")
    /\ stack' = SetTop(IF hopErrorReturns(Top.err)
                       THEN Respond(Top, 500, ErrorBody)
                       ELSE StartCall([Top EXCEPT !.order = Top.res],
                                      NOTIF, "GET", "/notify", <<>>, "gw_order_hop2"))
    /\ UNCHANGED <<spans, logs, metrics, idgen, fidgen, served, domainVars, auxVars>>

\* log.Printf("Failed to send notification: %v", err): a line of the
\* standard logger, with no field at all.
PrintfLog(f) ==
    [svc        |-> f.svc,
     kind       |-> "printf",
     service    |-> <<>>,
     request_id |-> <<>>,
     trace_id   |-> <<>>,
     method     |-> "",
     uri        |-> "",
     status     |-> 0,
     fid        |-> f.fid]

\* The "notification" value of the response: the decoded map, nil after an
\* error.
notificationValue(f) == IF f.err # "none" THEN "null" ELSE f.res.tag

\* POST /api/v1/orders after the notification-service hop: the error is
\* logged and the handler goes on to the 200 response.
GwCreateOrderRespondAborts ==
    /\ Running("gw_order_hop2")
    /\ LET f == Top
       IN  /\ logs' = IF f.err # "none" THEN Append(logs, PrintfLog(f)) ELSE logs
           /\ stack' = SetTop(IF f.err # "none"
                              THEN Respond(f, 500, ErrorBody)
                              ELSE Respond(f, 200,
                                     [Body("composite") EXCEPT !.order = f.order.tag,
                                            !.notification = notificationValue(f)]))
    /\ UNCHANGED <<spans, metrics, idgen, fidgen, served, domainVars, auxVars>>

GwCreateOrderRespond ==
    /\ Running("gw_order_hop2")
    /\ LET f == Top
       IN  /\ logs' = IF f.err # "none" THEN Append(logs, PrintfLog(f)) ELSE logs
           /\ stack' = SetTop(Respond(f, 200,
                  [Body("composite") EXCEPT !.order = f.order.tag,
                                            !.notification = notificationValue(f)]))
    /\ UNCHANGED <<spans, metrics, idgen, fidgen, served, domainVars, auxVars>>

(***************************************************************************)
(* order-service and user-service: simulateWork.                           *)
(***************************************************************************)
StartWork(f, op, ret) == [f EXCEPT !.op = op, !.ret = ret, !.pc = "sim_start"]

\* _, span := tracer.Start(ctx, "simulate-<operation>")
SimulateWorkStart ==
    /\ Running("sim_start")
    /\ LET f  == Top
           sp == NewSpan(SpanCtx(spans, f.ctx), <<"simulate", f.op>>, f.svc, f.fid, idgen)
       IN  /\ spans' = Append(spans, sp)
           /\ idgen' = idgen + 1
           /\ stack' = SetTop([f EXCEPT !.cspan = sp.id, !.pc = "sim_end"])
    /\ UNCHANGED <<logs, metrics, fidgen, served, domainVars, auxVars>>

\* after the sleep: span.SetAttributes, then the deferred span.End()
SimulateWorkEnd ==
    /\ Running("sim_end")
    /\ LET f == Top
       IN  /\ spans' = EndSpan(SetAttributes(spans, f.cspan,
                                   {"operation", "work_duration_ms"}), f.cspan)
           /\ stack' = SetTop([f EXCEPT !.pc = f.ret])
    /\ UNCHANGED <<logs, metrics, idgen, fidgen, served, domainVars, auxVars>>

(***************************************************************************)
(* order-service: callUserService.                                         *)
(***************************************************************************)
\* callUserService up to client.Do
CallUserServiceStart ==
    /\ Running("call_start")
    /\ Top.svc = ORDER
    /\ \E urlOK \in BOOLEAN :
        LET f  == Top
            sp == NewSpan(SpanCtx(spans, f.ctx), <<"call", f.callee>>, ORDER, f.fid, idgen)
            s1 == SetAttributes(Append(spans, sp), sp.id, {"http.url", "user.id"})
            g  == [f EXCEPT !.cspan = sp.id]
        IN  /\ idgen' = idgen + 1
            /\ IF urlOK
               THEN /\ spans' = s1
                    /\ stack' = SetTop([g EXCEPT
                           !.outHdr = Inject(ORDER, SpanCtx(s1, sp.id)),
                           !.pc = "call_do"])
               ELSE /\ spans' = EndSpan(RecordError(s1, sp.id), sp.id)
                    /\ stack' = SetTop(HelperReturn(g, "reqerr", NoBody, 0))
    /\ UNCHANGED <<logs, metrics, fidgen, served, domainVars, auxVars>>

\* callUserService from the return of client.Do
CallUserServiceFinish ==
    /\ Running("call_resp")
    /\ Top.svc = ORDER
    /\ \E rd \in BodyReads :
        LET f  == Top
            id == f.cspan
        IN  IF f.doErr # "none"
            THEN /\ rd = "ok"
                 /\ spans' = EndSpan(RecordError(spans, id), id)
                 /\ stack' = SetTop(HelperReturn(f, f.doErr, NoBody, 0))
            ELSE IF rd = "readerr"
            THEN /\ spans' = EndSpan(RecordError(spans, id), id)
                 /\ stack' = SetTop(HelperReturn(f, "readerr", NoBody, f.resp.status))
            ELSE IF rd = "notjson" \/ ~IsJSON(f.resp.body)
            THEN /\ spans' = EndSpan(RecordError(spans, id), id)
                 /\ stack' = SetTop(HelperReturn(f, "decode", NoBody, f.resp.status))
            ELSE /\ spans' = EndSpan(SetAttributes(spans, id, {"http.status_code"}), id)
                 /\ stack' = SetTop(HelperReturn(f, "none", f.resp.body, f.resp.status))
    /\ UNCHANGED <<logs, metrics, idgen, fidgen, served, domainVars, auxVars>>

(***************************************************************************)
(* order-service: handlers.                                                *)
(***************************************************************************)
OrderOp(op, outcome) == Sample("order_operations_total", op, outcome, "")

\* getOrders before simulateWork
GetOrders ==
    /\ Running("handler")
    /\ Top.svc = ORDER /\ Top.route = "/orders" /\ Top.method = "GET"
    /\ spans' = SetAttributes(spans, Top.ctx, {"operation"})
    /\ stack' = SetTop(StartWork(Top, "database_query", "orders_listed"))
    /\ UNCHANGED <<logs, metrics, idgen, fidgen, served, domainVars, auxVars>>

\* getOrders after simulateWork
GetOrdersDone ==
    /\ Running("orders_listed")
    /\ metrics' = Append(metrics, OrderOp("get_orders", "success"))
    /\ spans' = SetAttributes(spans, Top.ctx, {"result", "orders.count"})
    /\ stack' = SetTop(Respond(Top, 200, Body("orders")))
    /\ UNCHANGED <<logs, idgen, fidgen, served, domainVars, auxVars>>

\* createOrder with the order appended and the id consumed ahead of the
\* user check.
CreateOrderAppendsBeforeCheck ==
    /\ Running("handler")
    /\ Top.svc = ORDER /\ Top.route = "/orders" /\ Top.method = "POST"
    /\ LET f == Top
       IN  IF ~f.bodyOK
           THEN /\ metrics' = Append(metrics, OrderOp("create_order", "error"))
                /\ spans' = spans
                /\ orders' = orders
                /\ nextOrderID' = nextOrderID
                /\ stack' = SetTop(Respond(f, 400, ErrorBody))
           ELSE /\ metrics' = metrics
                /\ spans' = SetAttributes(spans, f.ctx,
                               {"operation", "user.id", "product", "amount"})
                /\ orders' = Append(orders, [id |-> nextOrderID, user |-> Atoi(f.arg).n])
                /\ nextOrderID' = nextOrderID + 1
                /\ stack' = SetTop(StartCall(f, USER, "GET", "/users/:id",
                                             Itoa(Atoi(f.arg).n), "order_user_checked"))
    /\ UNCHANGED <<logs, idgen, fidgen, served, users, nextNotificationID, auxVars>>

\* createOrder up to callUserService
CreateOrder ==
    /\ Running("handler")
    /\ Top.svc = ORDER /\ Top.route = "/orders" /\ Top.method = "POST"
    /\ LET f == Top
       IN  IF ~f.bodyOK
           THEN /\ metrics' = Append(metrics, OrderOp("create_order", "error"))
                /\ spans' = spans
                /\ stack' = SetTop(Respond(f, 400, ErrorBody))
           ELSE /\ metrics' = metrics
                /\ spans' = SetAttributes(spans, f.ctx,
                               {"operation", "user.id", "product", "amount"})
                /\ stack' = SetTop(StartCall(f, USER, "GET", "/users/:id",
                                             Itoa(Atoi(f.arg).n), "order_user_checked"))
    /\ UNCHANGED <<logs, idgen, fidgen, served, domainVars, auxVars>>

\* createOrder after callUserService
CreateOrderUserChecked ==
    /\ Running("order_user_checked")
    /\ LET f == Top
       IN  IF f.err # "none"
           THEN /\ metrics' = Append(metrics, OrderOp("create_order", "error"))
                /\ spans' = RecordError(spans, f.ctx)
                /\ stack' = SetTop(Respond(f, 400, ErrorBody))
           ELSE /\ metrics' = metrics
                /\ spans' = spans
                /\ stack' = SetTop(StartWork([f EXCEPT !.order = f.res],
                                             "order_processing", "order_processed"))
    /\ UNCHANGED <<logs, idgen, fidgen, served, domainVars, auxVars>>

\* createOrder after simulateWork
CreateOrderFinish ==
    /\ Running("order_processed")
    /\ LET f == Top
           newOrder == [id |-> nextOrderID, user |-> Atoi(f.arg).n]
       IN  /\ orders' = Append(orders, newOrder)
           /\ nextOrderID' = nextOrderID + 1
           /\ metrics' = Append(metrics, OrderOp("create_order", "success"))
           /\ spans' = SetAttributes(spans, f.ctx, {"result", "order.id"})
           /\ stack' = SetTop(Respond([f EXCEPT !.n = newOrder.id], 201,
                  [Body("created") EXCEPT !.order = "order", !.user = f.order.tag]))
    /\ UNCHANGED <<logs, idgen, fidgen, served, users, nextNotificationID, auxVars>>

\* getOrderByID up to simulateWork
GetOrderByID ==
    /\ Running("handler")
    /\ Top.svc = ORDER /\ Top.route = "/orders/:id"
    /\ LET f == Top
       IN  IF ~Atoi(f.arg).ok
           THEN /\ metrics' = Append(metrics, OrderOp("get_order", "error"))
                /\ spans' = spans
                /\ stack' = SetTop(Respond(f, 400, ErrorBody))
           ELSE /\ metrics' = metrics
                /\ spans' = SetAttributes(spans, f.ctx, {"order.id", "operation"})
                /\ stack' = SetTop(StartWork([f EXCEPT !.n = Atoi(f.arg).n],
                                             "database_query", "order_looked_up"))
    /\ UNCHANGED <<logs, idgen, fidgen, served, domainVars, auxVars>>

\* getOrderByID after simulateWork
GetOrderByIDDone ==
    /\ Running("order_looked_up")
    /\ LET f == Top
           found == \E i \in 1..Len(orders) : orders[i].id = f.n
       IN  /\ metrics' = Append(metrics,
                  OrderOp("get_order", IF found THEN "success" ELSE "not_found"))
           /\ spans' = SetAttributes(spans, f.ctx, {"result"})
           /\ stack' = SetTop(IF found THEN Respond(f, 200, Body("order"))
                                       ELSE Respond(f, 404, ErrorBody))
    /\ UNCHANGED <<logs, idgen, fidgen, served, domainVars, auxVars>>

(***************************************************************************)
(* user-service: handlers.                                                 *)
(***************************************************************************)
UserOp(op, outcome) == Sample("user_operations_total", op, outcome, "")

\* getUserByID up to the first simulateWork
GetUserByID ==
    /\ Running("handler")
    /\ Top.svc = USER /\ Top.route = "/users/:id"
    /\ LET f == Top
       IN  IF ~Atoi(f.arg).ok
           THEN /\ metrics' = Append(metrics, UserOp("get_user", "error"))
                /\ spans' = spans
                /\ stack' = SetTop(Respond(f, 400, ErrorBody))
           ELSE /\ metrics' = metrics
                /\ spans' = SetAttributes(spans, f.ctx, {"user.id", "operation"})
                /\ stack' = SetTop(StartWork([f EXCEPT !.n = Atoi(f.arg).n],
                                             "database_query", "user_looked_up"))
    /\ UNCHANGED <<logs, idgen, fidgen, served, domainVars, auxVars>>

\* getUserByID between the two simulateWork calls
GetUserByIDLookup ==
    /\ Running("user_looked_up")
    /\ LET f == Top
       IN  IF f.n \notin users
           THEN /\ metrics' = Append(metrics, UserOp("get_user", "not_found"))
                /\ spans' = SetAttributes(spans, f.ctx, {"result"})
                /\ stack' = SetTop(Respond(f, 404, ErrorBody))
           ELSE /\ metrics' = metrics
                /\ spans' = spans
                /\ stack' = SetTop(StartWork(f, "data_processing", "user_processed"))
    /\ UNCHANGED <<logs, idgen, fidgen, served, domainVars, auxVars>>

\* getUserByID after the second simulateWork
GetUserByIDDone ==
    /\ Running("user_processed")
    /\ metrics' = Append(metrics, UserOp("get_user", "success"))
    /\ spans' = SetAttributes(spans, Top.ctx, {"result", "user.name", "user.email"})
    /\ stack' = SetTop(Respond(Top, 200, Body("user")))
    /\ UNCHANGED <<logs, idgen, fidgen, served, domainVars, auxVars>>

\* getAllUsers up to the first simulateWork
GetAllUsers ==
    /\ Running("handler")
    /\ Top.svc = USER /\ Top.route = "/users" /\ Top.method = "GET"
    /\ spans' = SetAttributes(spans, Top.ctx, {"operation"})
    /\ stack' = SetTop(StartWork(Top, "database_query_all", "users_queried"))
    /\ UNCHANGED <<logs, metrics, idgen, fidgen, served, domainVars, auxVars>>

\* getAllUsers between the two simulateWork calls
GetAllUsersCollect ==
    /\ Running("users_queried")
    /\ stack' = SetTop(StartWork(Top, "data_processing", "users_processed"))
    /\ UNCHANGED <<spans, logs, metrics, idgen, fidgen, served, domainVars, auxVars>>

\* getAllUsers after the second simulateWork
GetAllUsersDone ==
    /\ Running("users_processed")
    /\ metrics' = Append(metrics, UserOp("get_all_users", "success"))
    /\ spans' = SetAttributes(spans, Top.ctx, {"result", "users.count"})
    /\ stack' = SetTop(Respond(Top, 200, Body("users")))
    /\ UNCHANGED <<logs, idgen, fidgen, served, domainVars, auxVars>>

\* createUser up to simulateWork
CreateUser ==
    /\ Running("handler")
    /\ Top.svc = USER /\ Top.route = "/users" /\ Top.method = "POST"
    /\ LET f == Top
       IN  IF ~f.bodyOK
           THEN /\ metrics' = Append(metrics, UserOp("create_user", "error"))
                /\ spans' = spans
                /\ stack' = SetTop(Respond(f, 400, ErrorBody))
           ELSE /\ metrics' = metrics
                /\ spans' = SetAttributes(spans, f.ctx,
                               {"operation", "user.name", "user.email"})
                /\ stack' = SetTop(StartWork([f EXCEPT !.n = Cardinality(users) + 1],
                                             "database_insert", "user_inserted"))
    /\ UNCHANGED <<logs, idgen, fidgen, served, domainVars, auxVars>>

\* createUser after simulateWork
CreateUserDone ==
    /\ Running("user_inserted")
    /\ users' = users \cup {Top.n}
    /\ metrics' = Append(metrics, UserOp("create_user", "success"))
    /\ spans' = SetAttributes(spans, Top.ctx, {"result", "user.id"})
    /\ stack' = SetTop(Respond(Top, 201, Body("user")))
    /\ UNCHANGED <<logs, idgen, fidgen, served, orders, nextOrderID,
                   nextNotificationID, auxVars>>

(***************************************************************************)
(* notification-service.                                                   *)
(***************************************************************************)
NotificationTypes == {"email", "sms", "push"}

\* sendNotification, sendEmail, sendSMS up to simulateNotificationSending
SendNotification ==
    /\ Running("handler")
    /\ Top.svc = NOTIF /\ Top.route \in {"/notify", "/email", "/sms"}
    /\ \E t \in NotificationTypes :
        /\ Top.route = "/email" => t = "email"
        /\ Top.route = "/sms" => t = "sms"
        /\ spans' = SetAttributes(spans, Top.ctx, {"operation"})
        /\ stack' = SetTop([Top EXCEPT !.ntype = t, !.ret = "notified",
                                       !.pc = "notify_start"])
    /\ UNCHANGED <<logs, metrics, idgen, fidgen, served, domainVars, auxVars>>

\* _, span := tracer.Start(ctx, "send-<type>-notification")
SimulateNotificationSendingStart ==
    /\ Running("notify_start")
    /\ LET f  == Top
           sp == NewSpan(SpanCtx(spans, f.ctx), <<"send", f.ntype>>, NOTIF, f.fid, idgen)
       IN  /\ spans' = Append(spans, sp)
           /\ idgen' = idgen + 1
           /\ stack' = SetTop([f EXCEPT !.cspan = sp.id, !.pc = "notify_end"])
    /\ UNCHANGED <<logs, metrics, fidgen, served, domainVars, auxVars>>

\* simulateNotificationSending after the sleep: one send in twenty fails
SimulateNotificationSendingEnd ==
    /\ Running("notify_end")
    /\ \E failed \in BOOLEAN :
        LET f  == Top
            id == f.cspan
            s1 == SetAttributes(spans, id, {"notification.type", "send_duration_ms"})
            s2 == SetAttributes(s1, id, {"result"})
        IN  /\ spans' = EndSpan(IF failed THEN RecordError(s2, id) ELSE s2, id)
            /\ metrics' = Append(metrics, Sample("notifications_sent_total", f.ntype,
                                     IF failed THEN "failed" ELSE "success", ""))
            /\ stack' = SetTop([f EXCEPT !.failed = failed, !.pc = f.ret])
    /\ UNCHANGED <<logs, idgen, fidgen, served, domainVars, auxVars>>

\* sendNotification, sendEmail, sendSMS after simulateNotificationSending
SendNotificationDone ==
    /\ Running("notified")
    /\ nextNotificationID' = nextNotificationID + 1
    /\ spans' = SetAttributes(spans, Top.ctx,
                    IF Top.route = "/notify"
                    THEN {"notification.type", "notification.id", "result"}
                    ELSE {"notification.id", "result"})
    /\ stack' = SetTop(Respond([Top EXCEPT !.n = nextNotificationID], 200,
                               Body("notification")))
    /\ UNCHANGED <<logs, metrics, idgen, fidgen, served, orders, nextOrderID,
                   users, auxVars>>

(***************************************************************************)
(* The slog demo application: GET /hello.                                  *)
(***************************************************************************)
RECURSIVE HexText(_)
HexText(n) ==
    IF n < 16 THEN <<HexChars[n + 1]>>
    ELSE HexText(n \div 16) \o <<HexChars[(n % 16) + 1]>>

\* getMockTraceID: "trace-%x" of a random number, whatever ctx holds
getMockTraceID(n) == <<"t", "r", "a", "c", "e", "-">> \o HexText(n)

SlogRecord(f, level) ==
    [svc        |-> f.svc,
     kind       |-> level,
     service    |-> <<f.svc>>,
     request_id |-> <<f.reqID>>,
     trace_id   |-> <<f.traceID>>,
     method     |-> f.method,
     uri        |-> f.route,
     status     |-> 0,
     fid        |-> f.fid]

\* /hello up to the first log statement
HelloStart ==
    /\ Running("hello")
    /\ LET f == Top
           g == [f EXCEPT
                  !.traceID = getMockTraceID(idgen + 1),
                  !.reqID = IF f.arg = <<>>
                            THEN <<"r", "e", "q", "-">> \o HexText(idgen + 2)
                            ELSE f.arg,
                  !.pc = "hello_work"]
       IN  /\ idgen' = idgen + (IF f.arg = <<>> THEN 2 ELSE 1)
           /\ logs' = Append(logs, SlogRecord(g, "INFO"))
           /\ stack' = SetTop(g)
    /\ UNCHANGED <<spans, metrics, fidgen, served, domainVars, auxVars>>

\* /hello after the sleep: two requests in ten fail
HelloFinish ==
    /\ Running("hello_work")
    /\ \E failed \in BOOLEAN :
        /\ logs' = Append(logs, SlogRecord(Top, IF failed THEN "ERROR" ELSE "INFO"))
        /\ stack' = SetTop([Top EXCEPT !.status = IF failed THEN 500 ELSE 200,
                                       !.body = Body("text"),
                                       !.failed = failed,
                                       !.pc = "done"])
    /\ UNCHANGED <<spans, metrics, idgen, fidgen, served, domainVars, auxVars>>

(***************************************************************************)
(* The mesh.                                                               *)
(***************************************************************************)
Next ==
    \/ ClientRequest
    \/ ClientRequestUnmatched
    \/ OtelginStart
    \/ LoggingMiddleware
    \/ PrometheusMiddleware
    \/ OtelginEnd
    \/ Health
    \/ NoRoute
    \/ ServerReturn
    \/ ResponseTimeout
    \/ Collect
    \/ CallServiceStart
    \/ ClientDoFail
    \/ ClientDoStall
    \/ ClientTimeoutFires
    \/ ClientDoSend
    \/ CallServiceFinish
    \/ GwGetUser
    \/ GwGetUserDone
    \/ GwListOrders
    \/ GwListOrdersDone
    \/ GwCreateOrder
    \/ GwCreateOrderNotify
    \/ GwCreateOrderRespond
    \/ SimulateWorkStart
    \/ SimulateWorkEnd
    \/ CallUserServiceStart
    \/ CallUserServiceFinish
    \/ GetOrders
    \/ GetOrdersDone
    \/ CreateOrder
    \/ CreateOrderUserChecked
    \/ CreateOrderFinish
    \/ GetOrderByID
    \/ GetOrderByIDDone
    \/ GetUserByID
    \/ GetUserByIDLookup
    \/ GetUserByIDDone
    \/ GetAllUsers
    \/ GetAllUsersCollect
    \/ GetAllUsersDone
    \/ CreateUser
    \/ CreateUserDone
    \/ SendNotification
    \/ SimulateNotificationSendingStart
    \/ SimulateNotificationSendingEnd
    \/ SendNotificationDone
    \/ HelloStart
    \/ HelloFinish

Spec == Init /\ [][Next]_vars

\* The services keep running: a handler that can take its next step takes
\* it, and a peer that has been sent a request answers, or stays silent
\* until the caller's timeout fires.
\* One request is followed from arrival to answer, from the state the
\* services start in.
InitLive ==
    /\ stack = <<>>
    /\ spans = <<>>
    /\ logs = <<>>
    /\ metrics = <<>>
    /\ idgen = 0
    /\ fidgen = 0
    /\ served = MaxRequests - 1
    /\ InitDomain
    /\ prop = PropOff
    /\ workers = WorkersIdle

SpecLive == InitLive /\ [][Next]_vars /\ WF_vars(Next)

(***************************************************************************)
(* The propagator on its own: a context is injected by one service and     *)
(* extracted by the service it calls.                                      *)
(***************************************************************************)
\* caller, callee of the outbound calls of the mesh
Links == {<<GW, ORDER>>, <<GW, USER>>, <<GW, NOTIF>>, <<ORDER, USER>>}

PropIds == {1, 171, 16 ^ 6 + 10}

InitPropagator ==
    /\ InitIdle
    /\ InitDomain
    /\ workers = WorkersIdle
    /\ prop \in {[phase |-> "ctx", from |-> l[1], to |-> l[2],
                  sc |-> SpanContext(t, sp, fl),
                  carrier |-> <<>>, out |-> NoSpanContext] :
                    l \in Links, t \in PropIds, sp \in PropIds, fl \in BOOLEAN}

PropInject ==
    /\ prop.phase = "ctx"
    /\ prop' = [prop EXCEPT !.carrier = Inject(prop.from, prop.sc),
                            !.phase = "injected"]
    /\ UNCHANGED <<stack, spans, logs, metrics, idgen, fidgen, served, domainVars,
                   workers>>

PropExtract ==
    /\ prop.phase = "injected"
    /\ prop' = [prop EXCEPT !.out = Extract(prop.to, prop.carrier),
                            !.phase = "extracted"]
    /\ UNCHANGED <<stack, spans, logs, metrics, idgen, fidgen, served, domainVars,
                   workers>>

NextPropagator == PropInject \/ PropExtract

SpecPropagator == InitPropagator /\ [][NextPropagator]_vars

(***************************************************************************)
(* The handlers side by side.  gin runs every request in a goroutine of    *)
(* its own, and the handlers use the package-level variables orders,       *)
(* nextOrderID, users and nextNotificationID without any lock.  Each       *)
(* worker runs one handler; a step is one access to such a variable.       *)
(***************************************************************************)
ConcurrentHandlers ==
    {"createOrder", "getOrders", "createUser", "getUserByID", "sendNotification"}

FirstPc(h) ==
    CASE h = "createOrder"      -> "co_id"
      [] h = "getOrders"        -> "go_read"
      [] h = "createUser"       -> "cu_len"
      [] h = "getUserByID"      -> "gu_read"
      [] h = "sendNotification" -> "sn_id"

At(w, pc) == workers[w].pc = pc

Step(w, r) == workers' = [workers EXCEPT ![w] = r]

ConcurrentFrame ==
    UNCHANGED <<stack, spans, logs, metrics, idgen, fidgen, served, prop>>

\* A request arrives and its handler has come to its first access.
WorkerBegin(w) ==
    /\ At(w, "idle")
    /\ \E h \in ConcurrentHandlers :
           Step(w, [workers[w] EXCEPT !.h = h, !.pc = FirstPc(h)])
    /\ UNCHANGED domainVars
    /\ ConcurrentFrame

\* createOrder: newOrder := Order{ID: nextOrderID, ...}
CreateOrderReadID(w) ==
    /\ At(w, "co_id")
    /\ Step(w, [workers[w] EXCEPT !.id = nextOrderID, !.pc = "co_load"])
    /\ UNCHANGED domainVars
    /\ ConcurrentFrame

\* createOrder: orders = append(orders, newOrder), the read of orders
CreateOrderAppendLoad(w) ==
    /\ At(w, "co_load")
    /\ Step(w, [workers[w] EXCEPT !.held = orders, !.pc = "co_store"])
    /\ UNCHANGED domainVars
    /\ ConcurrentFrame

\* createOrder: orders = append(orders, newOrder), the write of orders
CreateOrderAppendStore(w) ==
    /\ At(w, "co_store")
    /\ orders' = Append(workers[w].held, [id |-> workers[w].id, user |-> 1])
    /\ Step(w, [workers[w] EXCEPT !.held = <<>>, !.pc = "co_incr_load"])
    /\ UNCHANGED <<nextOrderID, users, nextNotificationID>>
    /\ ConcurrentFrame

\* createOrder: nextOrderID++, the read
CreateOrderIncrLoad(w) ==
    /\ At(w, "co_incr_load")
    /\ Step(w, [workers[w] EXCEPT !.tmp = nextOrderID, !.pc = "co_incr_store"])
    /\ UNCHANGED domainVars
    /\ ConcurrentFrame

\* createOrder: nextOrderID++, the write
CreateOrderIncrStore(w) ==
    /\ At(w, "co_incr_store")
    /\ nextOrderID' = workers[w].tmp + 1
    /\ Step(w, [workers[w] EXCEPT !.tmp = 0, !.pc = "done"])
    /\ UNCHANGED <<orders, users, nextNotificationID>>
    /\ ConcurrentFrame

\* getOrders: "orders": orders, "total": len(orders)
GetOrdersRead(w) ==
    /\ At(w, "go_read")
    /\ Step(w, [workers[w] EXCEPT !.tmp = Len(orders), !.pc = "done"])
    /\ UNCHANGED domainVars
    /\ ConcurrentFrame

\* createUser: newUser.ID = len(users) + 1
CreateUserLen(w) ==
    /\ At(w, "cu_len")
    /\ Step(w, [workers[w] EXCEPT !.id = Cardinality(users) + 1, !.pc = "cu_insert"])
    /\ UNCHANGED domainVars
    /\ ConcurrentFrame

\* createUser: users[newUser.ID] = newUser
CreateUserInsert(w) ==
    /\ At(w, "cu_insert")
    /\ users' = users \cup {workers[w].id}
    /\ Step(w, [workers[w] EXCEPT !.pc = "done"])
    /\ UNCHANGED <<orders, nextOrderID, nextNotificationID>>
    /\ ConcurrentFrame

\* getUserByID: user, exists := users[userID]
GetUserByIDRead(w) ==
    /\ At(w, "gu_read")
    /\ \E n \in {1, 4} :
           Step(w, [workers[w] EXCEPT !.id = n,
                                      !.tmp = IF n \in users THEN 1 ELSE 0,
                                      !.pc = "done"])
    /\ UNCHANGED domainVars
    /\ ConcurrentFrame

\* sendNotification: notification := Notification{ID: nextNotificationID, ...}
SendNotificationReadID(w) ==
    /\ At(w, "sn_id")
    /\ Step(w, [workers[w] EXCEPT !.id = nextNotificationID, !.pc = "sn_incr_load"])
    /\ UNCHANGED domainVars
    /\ ConcurrentFrame

\* sendNotification: nextNotificationID++, the read
SendNotificationIncrLoad(w) ==
    /\ At(w, "sn_incr_load")
    /\ Step(w, [workers[w] EXCEPT !.tmp = nextNotificationID, !.pc = "sn_incr_store"])
    /\ UNCHANGED domainVars
    /\ ConcurrentFrame

\* sendNotification: nextNotificationID++, the write
SendNotificationIncrStore(w) ==
    /\ At(w, "sn_incr_store")
    /\ nextNotificationID' = workers[w].tmp + 1
    /\ Step(w, [workers[w] EXCEPT !.tmp = 0, !.pc = "done"])
    /\ UNCHANGED <<orders, nextOrderID, users>>
    /\ ConcurrentFrame

NextConcurrent ==
    \E w \in Workers :
        \/ WorkerBegin(w)
        \/ CreateOrderReadID(w)
        \/ CreateOrderAppendLoad(w)
        \/ CreateOrderAppendStore(w)
        \/ CreateOrderIncrLoad(w)
        \/ CreateOrderIncrStore(w)
        \/ GetOrdersRead(w)
        \/ CreateUserLen(w)
        \/ CreateUserInsert(w)
        \/ GetUserByIDRead(w)
        \/ SendNotificationReadID(w)
        \/ SendNotificationIncrLoad(w)
        \/ SendNotificationIncrStore(w)

SpecConcurrent == Init /\ [][NextConcurrent]_vars

(***************************************************************************)
(* The log sink.  Every service opens its log file once at start-up with   *)
(* O_APPEND and hands io.MultiWriter(os.Stdout, logFile) to its logger;    *)
(* the logger formats a record into one line and writes it with one Write  *)
(* call.  io.MultiWriter passes the call on to os.Stdout and then to the   *)
(* file; a Write on the file appends its whole buffer at the end of the    *)
(* file.  Here logs is the file: the buffers appended, in order.           *)
(***************************************************************************)
MaxLogRecords == 3

\* The Write calls a record is handed over with, one buffer each.  The
\* Formatter returns the whole line, "\n" included, as one string.
LogLineInTwoWrites(w, k) ==
    <<[w |-> w, rec |-> k, part |-> 1, of |-> 2],
      [w |-> w, rec |-> k, part |-> 2, of |-> 2]>>

LogLine(w, k) == <<[w |-> w, rec |-> k, part |-> 1, of |-> 1]>>

LogSinkFrame ==
    UNCHANGED <<stack, spans, metrics, idgen, fidgen, served, domainVars, prop>>

\* The logger formats the next record of a request worker.
LogFormat(w) ==
    /\ At(w, "idle")
    /\ workers[w].tmp < MaxLogRecords
    /\ Step(w, [workers[w] EXCEPT !.held = LogLine(w, workers[w].tmp + 1),
                                  !.pc = "write_stdout"])
    /\ UNCHANGED logs
    /\ LogSinkFrame

\* io.MultiWriter: the Write on os.Stdout
WriteStdout(w) ==
    /\ At(w, "write_stdout")
    /\ Step(w, [workers[w] EXCEPT !.pc = "write_file"])
    /\ UNCHANGED logs
    /\ LogSinkFrame

\* io.MultiWriter: the Write on the log file
WriteFile(w) ==
    /\ At(w, "write_file")
    /\ logs' = Append(logs, Head(workers[w].held))
    /\ Step(w, IF Len(workers[w].held) > 1
               THEN [workers[w] EXCEPT !.held = Tail(@), !.pc = "write_stdout"]
               ELSE [workers[w] EXCEPT !.held = <<>>, !.tmp = @ + 1, !.pc = "idle"])
    /\ LogSinkFrame

NextLogSink ==
    \E w \in Workers :
        \/ LogFormat(w)
        \/ WriteStdout(w)
        \/ WriteFile(w)

SpecLogSink == Init /\ [][NextLogSink]_vars

\* The access a worker's next step makes: the variable, and whether it is
\* written.
NextAccess(w) ==
    LET pc == workers[w].pc
    IN  CASE pc \in {"co_id", "co_incr_load"} -> <<"nextOrderID", FALSE>>
          [] pc = "co_incr_store"              -> <<"nextOrderID", TRUE>>
          [] pc \in {"co_load", "go_read"}     -> <<"orders", FALSE>>
          [] pc = "co_store"                   -> <<"orders", TRUE>>
          [] pc \in {"cu_len", "gu_read"}      -> <<"users", FALSE>>
          [] pc = "cu_insert"                  -> <<"users", TRUE>>
          [] pc \in {"sn_id", "sn_incr_load"}  -> <<"nextNotificationID", FALSE>>
          [] pc = "sn_incr_store"              -> <<"nextNotificationID", TRUE>>
          [] OTHER                             -> <<"", FALSE>>

(***************************************************************************)
(* Properties.                                                             *)
(***************************************************************************)
GwOrder(f) == f.svc = GW /\ f.route = "/api/v1/orders" /\ f.method = "POST"

\* The handler has written its response.
Responded(f) == f.pc \in {"logmw", "prommw", "otelgin_end", "done"}

\* Hop j of f's chain is a required one: every hop but the notification
\* hop of POST /api/v1/orders.
Required(f, j) == ~(GwOrder(f) /\ j = 2)

HopFailed(f, j) == j <= Len(f.chain) /\ f.chain[j].err # "none"

Frames == {stack[k] : k \in 1..Len(stack)}

SpansOf(f) == {spans[i] : i \in {j \in 1..Len(spans) : spans[j].owner = f.fid}}

LogsOf(f) == {logs[i] : i \in {j \in 1..Len(logs) : logs[j].fid = f.fid}}

Samples == {metrics[i] : i \in 1..Len(metrics)}

\* C1: in POST /api/v1/orders of the gateway, once the order-service hop has
\* failed the notification-service hop is never started, and the response
\* is the 500 error response.
C1_RequiredHopFailureAborts ==
    \A f \in Frames :
        (GwOrder(f) /\ HopFailed(f, 1)) =>
            /\ Len(f.chain) = 1
            /\ f.callee = ORDER
            /\ \A sp \in SpansOf(f) : sp.name # <<"call", NOTIF>>
            /\ \/ f.pc = "gw_order_hop1"
               \/ Responded(f) /\ f.status = 500 /\ f.body = ErrorBody

C1_Witness ==
    \E f \in Frames :
        /\ GwOrder(f) /\ f.pc = "done"
        /\ HopFailed(f, 1) /\ f.chain[1].err = "timeout"
        /\ f.status = 500

\* C2: in POST /api/v1/orders of the gateway, when the order-service hop
\* succeeded and the notification-service hop failed, the response is 200
\* with the order-service result, and the failure is recorded as an error on
\* the hop's span, as an error increment of service_calls_total and as a
\* log line.
C2_OptionalHopFailureRecorded ==
    \A f \in Frames :
        (GwOrder(f) /\ f.pc = "done" /\ ~HopFailed(f, 1) /\ HopFailed(f, 2)) =>
            /\ f.status = 200
            /\ f.body.order = f.order.tag /\ f.order.tag # ""
            /\ SpanById(spans, f.chain[2].span).errors > 0
            /\ Sample("service_calls_total", NOTIF, "error", "") \in Samples
            /\ \E l \in LogsOf(f) : l.kind = "printf"

\* C3: whenever the notification hop failed, the notification field of the
\* response carries an explicit failed/degraded marker.
DegradedMarkers == {"failed", "degraded"}

C3_DegradedResponseFlagged ==
    \A f \in Frames :
        (GwOrder(f) /\ f.pc = "done" /\ HopFailed(f, 2)) =>
            f.body.notification \in DegradedMarkers

\* C4: whenever a required hop of a request failed, the root span of the
\* request is ended with status Error.
C4_RequiredHopFailureMarksRootSpan ==
    \A f \in Frames :
        (/\ f.svc \in ApmServices
         /\ f.pc = "done"
         /\ \E j \in 1..Len(f.chain) : Required(f, j) /\ HopFailed(f, j)) =>
            /\ SpanById(spans, f.ctx).ended
            /\ SpanById(spans, f.ctx).status = "Error"

\* The trace id a record of the request handled by f has to carry.
RequestTraceID(f) ==
    IF f.svc = HELLO THEN f.traceID
    ELSE TraceIDString(SpanById(spans, f.ctx).trace)

Bound(f) == IF f.svc = HELLO THEN f.traceID # <<>> ELSE f.ctx # 0

\* C5: a request without a usable propagation header is handled all the same
\* under a new root context: the root span has no parent and a new trace id,
\* and every span and every log record of the request carries that trace id.
C5_MissingContextSynthesized ==
    (stack # <<>> /\ ~Extract(stack[1].svc, stack[1].hdr).valid) =>
        LET f == stack[1]
        IN  /\ f.pc = "done" => f.status # 0
            /\ Bound(f) =>
                /\ f.svc # HELLO =>
                      /\ SpanById(spans, f.ctx).parent = 0
                      /\ SpanById(spans, f.ctx).trace \notin ClientTraceIds \cup {0}
                      /\ \A i \in 1..Len(spans) :
                            spans[i].trace = SpanById(spans, f.ctx).trace
                /\ \A i \in 1..Len(logs) : logs[i].trace_id = <<RequestTraceID(f)>>

\* C6: a request of an APM service with a valid propagation header (T, S):
\* the root span has parent S, and every span and every log record of the
\* request, in the receiving service and in the services it calls, carries
\* trace id T.
C6_ValidContextContinued ==
    (/\ stack # <<>>
     /\ stack[1].svc \in ApmServices
     /\ Extract(stack[1].svc, stack[1].hdr).valid) =>
        LET f  == stack[1]
            sc == Extract(f.svc, f.hdr)
        IN  /\ f.ctx # 0 => SpanById(spans, f.ctx).parent = sc.span
            /\ \A i \in 1..Len(spans) : spans[i].trace = sc.trace
            /\ \A i \in 1..Len(logs) : logs[i].trace_id = <<TraceIDString(sc.trace)>>

\* C7: a context injected by a service of the mesh and extracted by the
\* service it calls comes out with the same trace id, span id and sampling
\* flag.
C7_InjectExtractRoundTrip ==
    prop.phase = "extracted" =>
        /\ prop.out.valid
        /\ prop.out.trace = prop.sc.trace
        /\ prop.out.span = prop.sc.span
        /\ prop.out.sampled = prop.sc.sampled

C7_Witness ==
    /\ prop.phase = "extracted"
    /\ prop.from = ORDER
    /\ prop.sc.trace = 171 /\ prop.sc.span = 16 ^ 6 + 10 /\ ~prop.sc.sampled
    /\ prop.out.trace = 171

\* C8: the spans of a request have pairwise different ids, every span but
\* the ingress span has its parent among the spans started before it in the
\* same trace, and the server span of a called service is the child of the
\* span the caller had opened for the call.
C8_SpansFormOneTree ==
    /\ \A i, j \in 1..Len(spans) : i # j => spans[i].id # spans[j].id
    /\ \A i \in 2..Len(spans) :
          /\ spans[i].trace = spans[1].trace
          /\ \E j \in 1..(i - 1) : spans[j].id = spans[i].parent
    /\ \A k \in 1..(Len(stack) - 1) :
          stack[k + 1].ctx # 0 =>
              /\ stack[k].cspan # 0
              /\ SpanById(spans, stack[k].cspan).name = <<"call", stack[k + 1].svc>>
              /\ SpanById(spans, stack[k + 1].ctx).parent = stack[k].cspan

C8_Witness ==
    /\ Len(stack) = 2
    /\ stack[1].svc = GW /\ stack[2].svc = ORDER
    /\ stack[2].pc = "sim_end"
    /\ Len(spans) = 4
    /\ spans[4].parent = spans[3].id /\ spans[3].parent = spans[2].id
    /\ spans[2].parent = spans[1].id

\* C9: a span that is still open belongs to a handler invocation that is
\* still running, and to the helper that opened it if it is no root span:
\* when a helper has returned its span is ended, and when the handler chain
\* has finished every span of the invocation is ended.
HelperPcs == {"call_do", "call_wait", "call_silent", "call_resp", "sim_end", "notify_end"}

C9_NoSpanOutlivesHandler ==
    \A i \in 1..Len(spans) :
        ~spans[i].ended =>
            \E f \in Frames :
                /\ f.fid = spans[i].owner
                /\ f.pc # "done"
                /\ \/ spans[i].id = f.ctx
                   \/ f.pc \in HelperPcs /\ spans[i].id = f.cspan

C9_Witness ==
    /\ Len(stack) = 1
    /\ stack[1].svc = GW /\ stack[1].pc = "done"
    /\ HopFailed(stack[1], 1) /\ stack[1].chain[1].err = "connerr"
    /\ Len(spans) = 2
    /\ \A i \in 1..Len(spans) : spans[i].ended

\* The label vocabularies the metrics are declared with.
HTTPMethods ==
    {"GET", "HEAD", "POST", "PUT", "PATCH", "DELETE", "CONNECT", "OPTIONS", "TRACE"}

RouteTemplates == {r[3] : r \in Routes} \cup {""}

StatusTexts == {StatusText(c) : c \in {200, 201, 400, 404, 500}}

Outcomes == {"success", "error", "not_found"}

CallOutcomes == {"success", "error"}

UserOperations == {"get_user", "get_all_users", "create_user"}

OrderOperations == {"get_orders", "create_order", "get_order"}

SendOutcomes == {"success", "failed"}

\* C11: every label value of every metric sample recorded is a member of
\* the fixed vocabulary of its label: HTTP methods, route templates and
\* status codes for the HTTP metrics, service names, operation names,
\* notification types and outcome names for the others.
C11_LabelsFromEnumerations ==
    \A i \in 1..Len(metrics) :
        LET s == metrics[i]
        IN  CASE s.name = "http_requests_total" ->
                    /\ s.l1 \in HTTPMethods
                    /\ s.l2 \in RouteTemplates
                    /\ s.l3 \in StatusTexts
              [] s.name = "http_request_duration_seconds" ->
                    s.l1 \in HTTPMethods /\ s.l2 \in RouteTemplates
              [] s.name = "service_calls_total" ->
                    s.l1 \in {ORDER, USER, NOTIF} /\ s.l2 \in CallOutcomes
              [] s.name = "user_operations_total" ->
                    s.l1 \in UserOperations /\ s.l2 \in Outcomes
              [] s.name = "order_operations_total" ->
                    s.l1 \in OrderOperations /\ s.l2 \in Outcomes
              [] s.name = "notifications_sent_total" ->
                    s.l1 \in NotificationTypes /\ s.l2 \in SendOutcomes
              [] OTHER -> FALSE

CountSamples(name) ==
    Cardinality({i \in 1..Len(metrics) : metrics[i].name = name})

\* Handler invocations of the request whose metric middleware has returned.
MetricMiddlewareReturned ==
    fidgen - Cardinality({k \in 1..Len(stack) :
                            stack[k].pc \notin {"otelgin_end", "done"}})

\* C12: for the requests of the four services, the number of
\* http_requests_total increments and the number of
\* http_request_duration_seconds observations both equal the number of
\* handler invocations whose metric middleware has returned, and the two
\* samples of an invocation carry its method, its route template and the
\* status it answered with, whether that is a success or an error status.
C12_MetricMiddlewareExactlyOnce ==
    (stack # <<>> /\ stack[1].svc \in ApmServices) =>
        /\ CountSamples("http_requests_total") = MetricMiddlewareReturned
        /\ CountSamples("http_request_duration_seconds") = MetricMiddlewareReturned
        /\ Top.pc \in {"otelgin_end", "done"} =>
              /\ Len(metrics) >= 2
              /\ metrics[Len(metrics) - 1] =
                    Sample("http_requests_total", Top.method, Top.route,
                           StatusText(Top.status))
              /\ metrics[Len(metrics)] =
                    Sample("http_request_duration_seconds", Top.method, Top.route, "")

C12_Witness ==
    /\ Len(stack) = 1
    /\ stack[1].svc = GW /\ stack[1].pc = "done" /\ stack[1].status = 500
    /\ fidgen = 2
    /\ CountSamples("http_requests_total") = 2
    /\ CountSamples("http_request_duration_seconds") = 2

\* The handler invocations that are domain operations, their counter and
\* the operation names it may be given.
DomainOperation(f) ==
    f.svc \in {ORDER, USER, NOTIF} /\ f.route \notin {"/health", "/metrics", ""}

DomainCounter(f) ==
    CASE f.svc = ORDER -> "order_operations_total"
      [] f.svc = USER  -> "user_operations_total"
      [] f.svc = NOTIF -> "notifications_sent_total"

DomainLabels(f) ==
    CASE f.svc = ORDER -> OrderOperations
      [] f.svc = USER  -> UserOperations
      [] f.svc = NOTIF -> NotificationTypes

\* A service runs at most one domain operation per client request, so the
\* samples of its counter are those of the invocation f.
DomainSamples(f) ==
    {metrics[i] : i \in {j \in 1..Len(metrics) : metrics[j].name = DomainCounter(f)}}

DomainCounterOnce(outcomes) ==
    \A f \in Frames :
        DomainOperation(f) =>
            /\ CountSamples(DomainCounter(f)) <= 1
            /\ Responded(f) => CountSamples(DomainCounter(f)) = 1
            /\ \A s \in DomainSamples(f) :
                  s.l1 \in DomainLabels(f) /\ s.l2 \in outcomes

\* C13: every invocation of a domain operation handler has recorded its
\* domain counter exactly once when it has answered, never more than once
\* before, and the outcome label is one of success, error, not_found.
C13_DomainCounterExactlyOnce == DomainCounterOnce(Outcomes)

\* C14: every log record written for a request carries a request id, the
\* service identity, and a trace id, and that trace id is the trace id of
\* the spans of the handler invocation that wrote the record.
C14_LogRecordsCorrelated ==
    \A i \in 1..Len(logs) :
        /\ logs[i].request_id # <<>>
        /\ logs[i].service # <<>>
        /\ \E j \in 1..Len(spans) :
              /\ spans[j].owner = logs[i].fid
              /\ logs[i].trace_id = <<TraceIDString(spans[j].trace)>>

\* The errors of client.Do: no connection, and the expiry of the client's
\* timeout.
ClientDoErrors == {"connerr", "timeout"}

\* The error status a handler answers with when a required hop failed.
RequiredHopFailureStatus(f) == IF f.svc = GW THEN 500 ELSE 400

\* C15: a hop that ended with the expiry of the client timeout and a hop
\* that ended with a connection error are handled alike: no response of
\* the peer is used, the error is recorded on the hop's span and the span
\* ended; if the hop is required no further hop is made and the answer is
\* the error response, if it is optional the answer is 200 with the order
\* result.
C15_TimeoutHandledAsConnectionError ==
    \A f \in Frames :
        \A j \in 1..Len(f.chain) :
            f.chain[j].err \in ClientDoErrors =>
                /\ f.chain[j].status = 0
                /\ SpanById(spans, f.chain[j].span).ended
                /\ SpanById(spans, f.chain[j].span).errors = 1
                /\ Required(f, j) =>
                      /\ Len(f.chain) = j
                      /\ f.pc = f.ret \/ Responded(f)
                      /\ Responded(f) =>
                            /\ f.status = RequiredHopFailureStatus(f)
                            /\ f.body = ErrorBody
                /\ ~Required(f, j) =>
                      /\ f.pc = f.ret \/ Responded(f)
                      /\ Responded(f) =>
                            /\ f.status = 200
                            /\ f.body.order = f.order.tag /\ f.order.tag # ""

C15_Witness ==
    \E f \in Frames :
        /\ GwOrder(f) /\ f.pc = "done"
        /\ Len(f.chain) = 2
        /\ f.chain[2].err = "timeout" /\ f.status = 200

CallSpansOf(f) == {sp \in SpansOf(f) : sp.name[1] = "call"}

\* C16: the phases of a handler invocation of the four services come in
\* order.  Before the context is bound nothing has happened; a hop is made
\* only under the bound context; in POST /api/v1/orders the order-service
\* hop comes first and the notification-service hop only after it has
\* returned; once the response is written every hop has finished; the root
\* span is ended and the access-log line written only after the response
\* is written, and the line reports the status of that response.
C16_PhasesInOrder ==
    \A k \in 1..Len(stack) :
        LET f == stack[k]
        IN  f.svc \in ApmServices =>
              /\ f.ctx = 0 =>
                    /\ f.pc = "otelgin" /\ k = Len(stack)
                    /\ f.chain = <<>> /\ f.status = 0
                    /\ SpansOf(f) = {} /\ LogsOf(f) = {}
              /\ \A sp \in CallSpansOf(f) : f.ctx # 0 /\ sp.parent = f.ctx
              /\ GwOrder(f) =>
                    /\ Len(f.chain) <= 2
                    /\ \A j \in 1..Len(f.chain) :
                          f.chain[j].svc = (IF j = 1 THEN ORDER ELSE NOTIF)
                    /\ \A sp \in CallSpansOf(f) :
                          sp.name = <<"call", NOTIF>> =>
                              /\ Len(f.chain) >= 1
                              /\ SpanById(spans, f.chain[1].span).ended
              /\ f.status # 0 =>
                    /\ k = Len(stack)
                    /\ Responded(f)
                    /\ Cardinality(CallSpansOf(f)) = Len(f.chain)
                    /\ \A sp \in CallSpansOf(f) : sp.ended
              /\ (f.ctx # 0 /\ SpanById(spans, f.ctx).ended) =>
                    f.status # 0 /\ f.pc = "done"
              /\ \A l \in LogsOf(f) :
                    l.kind = "access" =>
                        /\ f.status # 0 /\ l.status = f.status
                        /\ f.pc \in {"prommw", "otelgin_end", "done"}

C16_Witness ==
    /\ Len(stack) = 1
    /\ GwOrder(stack[1]) /\ stack[1].pc = "done"
    /\ Len(stack[1].chain) = 2
    /\ stack[1].chain[1].err = "none" /\ stack[1].chain[2].err = "none"
    /\ SpanById(spans, stack[1].ctx).ended
    /\ \E l \in LogsOf(stack[1]) : l.kind = "access" /\ l.status = 200

RequiredHopFailed(f) ==
    \E j \in 1..Len(f.chain) : Required(f, j) /\ HopFailed(f, j)

\* What the gateway answers a request that no hop failure stands against:
\* 404 if no route matches, 400 if the body does not bind, 200 otherwise.
GatewayStatusWithoutFailure(f) ==
    IF f.route = "" THEN 404 ELSE IF ~f.bodyOK THEN 400 ELSE 200

C19_NoSharedMutableState ==
    \A w1, w2 \in Workers :
        (w1 # w2 /\ NextAccess(w1)[1] # "" /\ NextAccess(w1)[1] = NextAccess(w2)[1]) =>
            (~NextAccess(w1)[2] /\ ~NextAccess(w2)[2])

FirstSpanNamed(name) ==
    IF \E i \in 1..Len(spans) : spans[i].name = name
    THEN CHOOSE i \in 1..Len(spans) :
            /\ spans[i].name = name
            /\ \A j \in 1..(i - 1) : spans[j].name # name
    ELSE 0

\* C21: a POST /api/v1/orders request the gateway has answered 200, with
\* both hops successful, has gone through the user-service verification
\* before the notification-service call, and the order list of the order
\* service is the list found at arrival plus exactly one new order.
C21_OrderFlowVerifiesThenNotifies ==
    (/\ stack # <<>>
     /\ GwOrder(stack[1]) /\ stack[1].pc = "done" /\ stack[1].status = 200
     /\ ~HopFailed(stack[1], 1) /\ ~HopFailed(stack[1], 2)) =>
        /\ FirstSpanNamed(<<"call", USER>>) > 0
        /\ FirstSpanNamed(<<"call", USER>>) < FirstSpanNamed(<<"call", NOTIF>>)
        /\ Len(orders) = Len(stack[1].before.orders) + 1
        /\ SubSeq(orders, 1, Len(orders) - 1) = stack[1].before.orders

GwInFlight == stack # <<>> /\ stack[1].svc = GW /\ stack[1].pc # "done"

GwAnswered == stack # <<>> /\ stack[1].svc = GW /\ stack[1].pc = "done"

\* The request is one the gateway can run its chain for: a route matches
\* and the body binds.
WellFormed(f) == f.route # "" /\ f.bodyOK

\* The terminal outcomes the answer of the gateway stands for.
TerminalOutcomes(f) ==
    {o \in {"success", "success-with-degraded-optional-hop", "required-hop-failure"} :
        \/ /\ o = "required-hop-failure"
           /\ f.status = 500 /\ f.body = ErrorBody /\ RequiredHopFailed(f)
        \/ /\ o = "success-with-degraded-optional-hop"
           /\ f.status = 200 /\ GwOrder(f) /\ ~HopFailed(f, 1) /\ HopFailed(f, 2)
        \/ /\ o = "success"
           /\ f.status = 200 /\ \A j \in 1..Len(f.chain) : ~HopFailed(f, j)}

ServerSpans(fid) ==
    {spans[j] : j \in {k \in 1..Len(spans) :
                         spans[k].owner = fid /\ spans[k].name[1] = "server"}}

\* C23: the trace_id field of every access-log line is the trace id of the
\* root span of the request that line is about, and it is not the all-zero
\* trace id, on every route.
C23_AccessLogTraceIDBound ==
    \A i \in 1..Len(logs) :
        logs[i].kind = "access" =>
            /\ logs[i].trace_id # <<TraceIDString(0)>>
            /\ Cardinality(ServerSpans(logs[i].fid)) = 1
            /\ \A sp \in ServerSpans(logs[i].fid) :
                  logs[i].trace_id = <<TraceIDString(sp.trace)>>

C23_Witness ==
    /\ Len(stack) = 1
    /\ stack[1].svc = USER /\ stack[1].route = "/metrics" /\ stack[1].pc = "done"
    /\ stack[1].hdr = NoHeader
    /\ \E i \in 1..Len(logs) :
          /\ logs[i].kind = "access" /\ logs[i].uri = "/metrics"
          /\ logs[i].trace_id = <<TraceIDString(SpanById(spans, stack[1].ctx).trace)>>

\* createOrder of order-service.
OrderCreate(f) == f.svc = ORDER /\ f.route = "/orders" /\ f.method = "POST"

\* C24: when user-service answers the lookup of createOrder with 404, no
\* order is created and the client receives the user-verification error.
C24_UnknownUserCreatesNoOrder ==
    \A f \in Frames :
        (OrderCreate(f) /\ Responded(f) /\ Len(f.chain) = 1
            /\ f.chain[1].status = 404) =>
            /\ f.status = 400
            /\ orders = f.before.orders

\* The workers whose createOrder has answered 201.
OrdersCreated == {w \in Workers : workers[w].h = "createOrder" /\ workers[w].pc = "done"}

\* C25: once the concurrent createOrder requests have been answered, the
\* orders answered with 201 have pairwise distinct ids, every one of them is
\* in the order list, no two orders of the list share an id, and
\* nextOrderID is 3 plus the number of orders created.
C25_ConcurrentCreateOrderConsistent ==
    (\A w \in Workers : workers[w].pc \in {"idle", "done"}) =>
        /\ \A w1, w2 \in OrdersCreated : w1 # w2 => workers[w1].id # workers[w2].id
        /\ \A w \in OrdersCreated : \E i \in 1..Len(orders) : orders[i].id = workers[w].id
        /\ \A i, j \in 1..Len(orders) : i # j => orders[i].id # orders[j].id
        /\ Len(orders) = 2 + Cardinality(OrdersCreated)
        /\ nextOrderID = InitialNextOrderID + Cardinality(OrdersCreated)

\* C26: whenever createOrder of order-service answers with an error, the
\* order list and nextOrderID are what they were when the request arrived.
C26_ErrorLeavesOrdersUntouched ==
    \A f \in Frames :
        (OrderCreate(f) /\ Responded(f) /\ f.status >= 400) =>
            /\ orders = f.before.orders
            /\ nextOrderID = f.before.nextOrderID

C26_Witness ==
    \E f \in Frames :
        /\ OrderCreate(f) /\ f.pc = "done" /\ f.status = 400
        /\ f.bodyOK
        /\ Len(f.chain) = 1 /\ f.chain[1].err = "connerr"
        /\ orders = f.before.orders /\ nextOrderID = InitialNextOrderID

\* The service_calls_total samples of the request, in the order recorded.
ServiceCalls == SelectSeq(metrics, LAMBDA s : s.name = "service_calls_total")

\* C27: in a request to the gateway, service_calls_total has been
\* incremented once for every callService invocation that has returned and
\* not at all for one that has not, with the callee of that invocation as
\* its service label, whichever way the invocation ended.
C27_ServiceCallCountedOnce ==
    (stack # <<>> /\ stack[1].svc = GW) =>
        /\ Len(ServiceCalls) = Len(stack[1].chain)
        /\ \A j \in 1..Len(ServiceCalls) :
              /\ ServiceCalls[j].l1 = stack[1].chain[j].svc
              /\ ServiceCalls[j].l2 \in CallOutcomes

C27_Witness ==
    /\ Len(stack) = 1 /\ GwOrder(stack[1]) /\ stack[1].pc = "done"
    /\ Len(stack[1].chain) = 2
    /\ stack[1].chain[1].err = "none" /\ stack[1].chain[2].err = "decode"
    /\ Len(ServiceCalls) = 2

\* C28: in a request to the gateway, a callService invocation has returned
\* a non-nil error exactly when it has counted the hop with status=error in
\* service_calls_total.
C28_ErrorIffCountedError ==
    (stack # <<>> /\ stack[1].svc = GW) =>
        \A j \in 1..Len(stack[1].chain) :
            j <= Len(ServiceCalls) =>
                (stack[1].chain[j].err # "none" <=> ServiceCalls[j].l2 = "error")

\* C29: when the simulated send of a notification handler has failed, the
\* handler does not answer 200 with the notification marked as sent.
C29_FailedSendNotReportedSent ==
    \A f \in Frames :
        (f.svc = NOTIF /\ f.route \in {"/notify", "/email", "/sms"}
            /\ Responded(f) /\ f.failed) =>
            ~(f.status = 200 /\ f.body = Body("notification"))

\* C30: no span has had SetAttributes or RecordError called on it after its
\* End, in any handler or helper.
C30_NoRecordingAfterEnd ==
    \A i \in 1..Len(spans) : ~spans[i].late

C30_Witness ==
    /\ Len(stack) = 1 /\ GwOrder(stack[1]) /\ stack[1].pc = "done"
    /\ Len(stack[1].chain) = 2
    /\ stack[1].chain[1].err = "none" /\ stack[1].chain[2].err = "none"
    /\ \E i \in 1..Len(spans) :
          /\ spans[i].name[1] = "send" /\ spans[i].errors > 0 /\ spans[i].ended
    /\ \E i \in 1..Len(spans) :
          /\ spans[i].name[1] = "simulate" /\ spans[i].attrs # {} /\ spans[i].ended
    /\ \A i \in 1..Len(spans) :
          spans[i].ended /\ spans[i].attrs # {} /\ ~spans[i].late

====
